---- MODULE Spec2Model ----
(***************************************************************************)
(* A model of the place data pipeline of verona-app:                       *)
(*   scripts/sync-notion.js     Fetcher + Normalizer + Writer              *)
(*   scripts/geocode-places.mjs Reader + Geocoder + Writer                 *)
(* The two scripts are separate, manually started processes that share one *)
(* file, public/data/places.json.                                          *)
(***************************************************************************)
EXTENDS Integers, Sequences, FiniteSets, TLC

(***************************************************************************)
(* JavaScript values.  Every value is a record tagged by its type, so that *)
(* values of different types can be compared.  An object is a function     *)
(* from its own keys to values; a key that is not there reads undefined.   *)
(***************************************************************************)
Undef == [t |-> "undefined"]
Null == [t |-> "null"]
NaN == [t |-> "NaN"]
Num(n) == [t |-> "number", v |-> n]
Str(s) == [t |-> "string", v |-> s]
Arr(s) == [t |-> "array", v |-> s]
Obj(r) == [t |-> "object", v |-> r]
Throw == [t |-> "throw"]

\* ToBoolean: undefined, null, NaN, 0 and "" are falsy, all else is truthy.
Truthy(x) ==
  CASE x.t = "undefined" -> FALSE
    [] x.t = "null" -> FALSE
    [] x.t = "NaN" -> FALSE
    [] x.t = "number" -> x.v # 0
    [] x.t = "string" -> x.v # ""
    [] OTHER -> TRUE

Nullish(x) == x.t \in {"undefined", "null"}

\* a || b
Or(a, b) == IF Truthy(a) THEN a ELSE b

\* o.k on a value that is not null or undefined
Get(o, k) == IF o.t = "object" /\ k \in DOMAIN o.v THEN o.v[k] ELSE Undef

\* o?.k
OptGet(o, k) == IF Nullish(o) THEN Undef ELSE Get(o, k)

\* a[0] on a value that is not null or undefined
First(a) == IF a.t = "array" /\ Len(a.v) > 0 THEN a.v[1] ELSE Undef

\* o.k = x
Put(o, k, x) ==
  Obj([j \in DOMAIN o.v \cup {k} |-> IF j = k THEN x ELSE o.v[j]])

(***************************************************************************)
(* The Normalizer: the callback of response.results.map in syncPlaces.     *)
(***************************************************************************)
getText(prop) ==
  IF ~Truthy(prop) THEN Str("")
  ELSE IF Truthy(Get(prop, "title"))
    THEN Or(OptGet(First(Get(prop, "title")), "plain_text"), Str(""))
  ELSE IF Truthy(Get(prop, "rich_text"))
    THEN Or(OptGet(First(Get(prop, "rich_text")), "plain_text"), Str(""))
  ELSE Str("")

getSelect(prop) == Or(OptGet(OptGet(prop, "select"), "name"), Str(""))

getNumberBare(prop) == OptGet(prop, "number")

getNumber(prop) == Or(OptGet(prop, "number"), Num(0))

getUrl(prop) == Or(OptGet(prop, "url"), Str(""))

getPhone(prop) == Or(OptGet(prop, "phone_number"), Str(""))

\* The Place built from one page; reading a property of an undefined
\* `page.properties` raises a TypeError.
Normalize(page) ==
  LET props == Get(page, "properties") IN
  IF Nullish(props) THEN Throw
  ELSE Obj([
    id |-> Get(page, "id"),
    name |-> getText(Get(props, "Name")),
    category |-> getSelect(Get(props, "Category")),
    rating |-> getNumber(Get(props, "Rating")),
    reviews |-> getNumber(Get(props, "Reviews")),
    price |-> getSelect(Get(props, "Price")),
    distance |-> getNumber(Get(props, "Distance")),
    vibe |-> getNumber(Get(props, "Vibe")),
    confidence |-> getNumber(Get(props, "Confidence")),
    address |-> getText(Get(props, "Address")),
    phone |-> getPhone(Get(props, "Phone")),
    website |-> getUrl(Get(props, "Website")),
    googleMaps |-> getUrl(Get(props, "Google Maps")),
    booking |-> getUrl(Get(props, "Booking")),
    notes |-> getText(Get(props, "Notes"))])

\* The field names of a Place, by the type of the source property.
TextFields == {"name", "address", "notes"}
SelectFields == {"category", "price"}
NumberFields == {"rating", "reviews", "distance", "vibe", "confidence"}
UrlFields == {"website", "googleMaps", "booking"}
PhoneFields == {"phone"}
StringFields == TextFields \cup SelectFields \cup UrlFields \cup PhoneFields
PlaceFields == {"id"} \cup StringFields \cup NumberFields

\* The source property a Place field is read from.
PropOf(f) ==
  CASE f = "name" -> "Name"
    [] f = "category" -> "Category"
    [] f = "rating" -> "Rating"
    [] f = "reviews" -> "Reviews"
    [] f = "price" -> "Price"
    [] f = "distance" -> "Distance"
    [] f = "vibe" -> "Vibe"
    [] f = "confidence" -> "Confidence"
    [] f = "address" -> "Address"
    [] f = "phone" -> "Phone"
    [] f = "website" -> "Website"
    [] f = "googleMaps" -> "Google Maps"
    [] f = "booking" -> "Booking"
    [] f = "notes" -> "Notes"

PropNames == {PropOf(f) : f \in StringFields \cup NumberFields}

(***************************************************************************)
(* Bounds and inputs of the model.                                         *)
(***************************************************************************)
\* The largest number of records in a fetched result page.
MaxRecords == 2

\* An address whose encoding to a URI component raises URIError: a string
\* holding a lone UTF-16 surrogate.
LoneSurrogate == "Piazza Bra \\uD83C"

WellFormed(s) == s # LoneSurrogate

\* What a source property holds, by the way it is filled:
\*   "full"   every sub-field there        "hollow" the sub-field is empty/null
\*   "zero"   the sub-field is ""/0        "bare"   the sub-field is missing
TextProp(key, fill, text) ==
  CASE fill = "full" -> Obj([k \in {key} |-> Arr(<<Obj([plain_text |-> Str(text)])>>)])
    [] fill = "hollow" -> Obj([k \in {key} |-> Arr(<<>>)])
    [] fill = "zero" -> Obj([k \in {key} |-> Arr(<<Obj([plain_text |-> Str("")])>>)])
    [] fill = "bare" -> Obj([k \in {key} |-> Arr(<<Obj(<<>>)>>)])

SelectProp(fill, label) ==
  CASE fill = "full" -> Obj([select |-> Obj([name |-> Str(label)])])
    [] fill = "hollow" -> Obj([select |-> Null])
    [] fill = "zero" -> Obj([select |-> Obj([name |-> Str("")])])
    [] fill = "bare" -> Obj([select |-> Obj(<<>>)])

ScalarProp(key, fill, value, zero) ==
  CASE fill = "full" -> Obj([k \in {key} |-> value])
    [] fill = "hollow" -> Obj([k \in {key} |-> Null])
    [] fill = "zero" -> Obj([k \in {key} |-> zero])
    [] fill = "bare" -> Obj(<<>>)

Fills == {"full", "hollow", "zero", "bare"}

PropValue(name, fill, addr) ==
  CASE name = "Name" -> TextProp("title", fill, "Trattoria X")
    [] name = "Address" -> TextProp("rich_text", fill, addr)
    [] name = "Notes" -> TextProp("rich_text", fill, "book ahead")
    [] name = "Category" -> SelectProp(fill, "Trattoria")
    [] name = "Price" -> SelectProp(fill, "$$")
    [] name = "Rating" -> ScalarProp("number", fill, Num(4), Num(0))
    [] name = "Reviews" -> ScalarProp("number", fill, Num(120), Num(0))
    [] name = "Distance" -> ScalarProp("number", fill, Num(3), Num(0))
    [] name = "Vibe" -> ScalarProp("number", fill, Num(5), Num(0))
    [] name = "Confidence" -> ScalarProp("number", fill, Num(2), Num(0))
    [] name = "Phone" -> ScalarProp("phone_number", fill, Str("+39 045 800"), Str(""))
    [] name = "Website" -> ScalarProp("url", fill, Str("https://x.example"), Str(""))
    [] name = "Google Maps" -> ScalarProp("url", fill, Str("https://maps.example/x"), Str(""))
    [] name = "Booking" -> ScalarProp("url", fill, Str("https://book.example/x"), Str(""))

\* A source record with the properties `present`, each filled the same way.
Page(id, present, fill, addr) ==
  Obj([id |-> Str(id),
       properties |-> Obj([n \in present |-> PropValue(n, fill, addr)])])

\* A source record without a properties mapping.
PageNoProps(id) == Obj([id |-> Str(id)])

(***************************************************************************)
(* State.                                                                  *)
(***************************************************************************)
VARIABLES
  file,        \* public/data/places.json: [kind, recs], and who wrote it
  job,         \* the script that runs or ran last: "none", "sync", "geocode"
  pc,          \* where that script is
  places,      \* the script's in-memory collection
  idx,         \* the Geocoder's position in its loop over places, from 1
  updated, skipped, failed,   \* the Geocoder's counters
  exitCode,    \* the process's exit status; -1 while it runs
  logged,      \* whether the process logged an error
  requests,    \* bulk fetch requests this sync run issued
  writes,      \* writeFileSync calls of this run
  inFlight,    \* address lookups awaiting their response
  timer,       \* ms since the pending delay(1100) was set, up to DelayMs
  sinceStart,  \* ms since the last lookup started, up to DelayMs
  sinceEnd,    \* ms since the last lookup completed, up to DelayMs
  \* history, read by no action's guard
  fileAtStart, \* the file as it was when this run started
  path,        \* the branch each record of this Geocoder run took
  lastResp,    \* what the lookup that completed last came back with
  prev,        \* the Geocoder run before this one, if it ran to its end
  sameNet,     \* each lookup of this run gave what the previous run's gave
  cause,       \* why this run stopped early, "" if it did not
  normIn, normOut   \* a source record and what the Normalizer makes of it

vars == <<file, job, pc, places, idx, updated, skipped, failed, exitCode,
          logged, requests, writes, inFlight, timer, sinceStart, sinceEnd,
          fileAtStart, path, lastResp, prev, sameNet, cause,
          normIn, normOut>>

normVars == <<normIn, normOut>>

\* delay(1100)
DelayMs == 1100

\* How far the clock moves in one step of the model.
TickSteps == {600}

Min(a, b) == IF a < b THEN a ELSE b

NoFile == [kind |-> "missing", recs |-> <<>>, by |-> "none"]
NoPrev == [valid |-> FALSE, path |-> <<>>]
NoLookup == [k |-> "none"]

(***************************************************************************)
(* JSON.stringify of the collection.  A NaN is written as null; a key is   *)
(* written exactly when the object has it.  The file is held as the JSON   *)
(* value its text denotes, which is what JSON.parse gives back.            *)
(***************************************************************************)
StringifyValue(x) == IF x.t = "NaN" THEN Null ELSE x

Stringify(coll) ==
  [i \in 1..Len(coll) |->
     Obj([k \in DOMAIN coll[i].v |-> StringifyValue(coll[i].v[k])])]

(***************************************************************************)
(* geocodeAddress                                                          *)
(***************************************************************************)
\* The decimal strings of the model and the numbers they denote.
Decimal == ("45" :> 45) @@ ("11" :> 11) @@ ("0" :> 0)

parseFloat(x) ==
  IF x.t = "string" /\ x.v \in DOMAIN Decimal THEN Num(Decimal[x.v])
  ELSE IF x.t = "number" THEN x
  ELSE NaN

\* What a lookup can come back with: fetch rejects, the body is not JSON,
\* or the body is the JSON value `data`.
Hit(lat, lon) == Obj([lat |-> lat, lon |-> lon, display_name |-> Str("Verona")])
HitNoLat(lon) == Obj([lon |-> lon, display_name |-> Str("Verona")])

LookupOutcomes ==
  { [k |-> "reject"], [k |-> "notjson"] } \cup
  { [k |-> "json", data |-> d] :
      d \in { Arr(<<>>),
              Obj([error |-> Str("Unable to geocode")]),
              Arr(<<Null>>),
              Arr(<<Hit(Str("45"), Str("11"))>>),
              Arr(<<Hit(Str("0"), Str("11"))>>),
              Arr(<<Hit(Str("45"), Str("abc"))>>),
              Arr(<<HitNoLat(Str("11"))>>) } }

\* data.length > 0
NonEmpty(data) == data.t = "array" /\ Len(data.v) > 0

geocodeAddressLenient(out) ==
  IF out.k # "json" THEN Null
  ELSE IF ~Truthy(out.data) THEN Null
  ELSE Obj([lat |-> parseFloat(OptGet(First(out.data), "lat")),
            lng |-> parseFloat(OptGet(First(out.data), "lon"))])

\* The value geocodeAddress resolves to, once its request was issued.
geocodeAddress(out) ==
  IF out.k # "json" THEN Null                      \* caught, logged
  ELSE IF ~(Truthy(out.data) /\ NonEmpty(out.data)) THEN Null
  ELSE IF Nullish(First(out.data)) THEN Null       \* TypeError, caught
  ELSE Obj([lat |-> parseFloat(Get(First(out.data), "lat")),
            lng |-> parseFloat(Get(First(out.data), "lon"))])

\* encodeURIComponent(address) raises URIError, outside the try block.
EncodeThrows(address) == address.t = "string" /\ ~WellFormed(address.v)

(***************************************************************************)
(* How a process ends.                                                     *)
(***************************************************************************)
\* main().catch(console.error) / syncPlaces().catch(console.error): the
\* rejection is logged and handled, and the process ends with status 0.
Rejected(why) ==
  /\ cause' = why
  /\ logged' = TRUE
  /\ exitCode' = 0
  /\ pc' = "exited"

\* An exception outside the promise chain (module top level, an event
\* callback): the runtime prints it and ends the process with status 1.
Uncaught(why) ==
  /\ cause' = why
  /\ logged' = TRUE
  /\ exitCode' = 1
  /\ pc' = "exited"

\* The script ran to its last line.
Completed ==
  /\ cause' = cause
  /\ logged' = logged
  /\ exitCode' = 0
  /\ pc' = "exited"

CanStart == pc \in {"idle", "exited"}

RanToEnd == pc = "exited" /\ exitCode = 0 /\ ~logged

\* What every start resets: the previous process and its memory are gone.
FreshProcess ==
  /\ fileAtStart' = file
  /\ writes' = 0
  /\ inFlight' = 0
  /\ timer' = 0
  /\ sinceStart' = 0
  /\ sinceEnd' = 0
  /\ idx' = 1
  /\ updated' = 0
  /\ skipped' = 0
  /\ failed' = 0
  /\ path' = <<>>
  /\ sameNet' = TRUE

(***************************************************************************)
(* scripts/geocode-places.mjs                                              *)
(***************************************************************************)
\* place.lat && place.lng
HasCoords(place) == Truthy(Get(place, "lat")) /\ Truthy(Get(place, "lng"))

\* !place.address
NoAddress(place) == ~Truthy(Get(place, "address"))

AtRecord == job = "geocode" /\ pc = "g_loop" /\ idx <= Len(places)

Took(branch, out) ==
  /\ path' = Append(path, branch)
  /\ lastResp' = out

\* readFileSync + JSON.parse succeed.
StartGeocode ==
  /\ CanStart
  /\ file.kind = "json"
  /\ FreshProcess
  /\ requests' = 0
  /\ job' = "geocode"
  /\ prev' = IF job = "geocode" /\ RanToEnd
             THEN [valid |-> TRUE, path |-> path]
             ELSE NoPrev
  /\ places' = file.recs
  /\ lastResp' = NoLookup
  /\ cause' = ""
  /\ logged' = FALSE
  /\ exitCode' = -1
  /\ pc' = "g_loop"
  /\ UNCHANGED <<file, normVars>>

\* readFileSync or JSON.parse throws: main's promise rejects.
GeocodeReadFails ==
  /\ CanStart
  /\ file.kind # "json"
  /\ FreshProcess
  /\ requests' = 0
  /\ job' = "geocode"
  /\ prev' = NoPrev
  /\ places' = <<>>
  /\ lastResp' = NoLookup
  /\ Rejected("read")
  /\ UNCHANGED <<file, normVars>>

GeoSkip ==
  /\ AtRecord
  /\ HasCoords(places[idx])
  /\ skipped' = skipped + 1
  /\ idx' = idx + 1
  /\ Took("skipped", NoLookup)
  /\ UNCHANGED <<file, job, pc, places, updated, failed, exitCode, logged,
                 requests, writes, inFlight, timer, sinceStart, sinceEnd,
                 fileAtStart, prev, sameNet, cause, normVars>>

GeoNoAddressUncounted ==
  /\ AtRecord
  /\ ~HasCoords(places[idx])
  /\ NoAddress(places[idx])
  /\ idx' = idx + 1
  /\ Took("noaddress", NoLookup)
  /\ UNCHANGED <<file, job, pc, places, updated, skipped, failed, exitCode,
                 logged, requests, writes, inFlight, timer, sinceStart,
                 sinceEnd, fileAtStart, prev, sameNet, cause, normVars>>

GeoNoAddress ==
  /\ AtRecord
  /\ ~HasCoords(places[idx])
  /\ NoAddress(places[idx])
  /\ failed' = failed + 1
  /\ idx' = idx + 1
  /\ Took("noaddress", NoLookup)
  /\ UNCHANGED <<file, job, pc, places, updated, skipped, exitCode, logged,
                 requests, writes, inFlight, timer, sinceStart, sinceEnd,
                 fileAtStart, prev, sameNet, cause, normVars>>

\* geocodeAddress is called and encodeURIComponent throws before the try
\* block: geocodeAddress's promise rejects, and so does main's.
GeoEncodeThrows ==
  /\ AtRecord
  /\ ~HasCoords(places[idx])
  /\ ~NoAddress(places[idx])
  /\ EncodeThrows(Get(places[idx], "address"))
  /\ Took("threw", NoLookup)
  /\ Rejected("encode")
  /\ UNCHANGED <<file, job, places, idx, updated, skipped, failed, requests,
                 writes, inFlight, timer, sinceStart, sinceEnd, fileAtStart,
                 prev, sameNet, normVars>>

\* geocodeAddress is called and issues its request.
GeoLookupStart ==
  /\ AtRecord
  /\ ~HasCoords(places[idx])
  /\ ~NoAddress(places[idx])
  /\ ~EncodeThrows(Get(places[idx], "address"))
  /\ inFlight' = inFlight + 1
  /\ sinceStart' = 0
  /\ pc' = "g_fetch"
  /\ UNCHANGED <<file, job, places, idx, updated, skipped, failed, exitCode,
                 logged, requests, writes, timer, sinceEnd, fileAtStart,
                 path, lastResp, prev, sameNet, cause, normVars>>

\* The collection as this Geocoder run read it.
Loaded == IF fileAtStart.kind = "json" THEN fileAtStart.recs ELSE <<>>

\* Whether `coords` is what the previous run's lookup for this record gave:
\* the pair that run stored, or null where it counted the record as failed.
SameAsBefore(coords) ==
  prev.valid /\ idx <= Len(prev.path) =>
    CASE prev.path[idx] = "updated" ->
           /\ Truthy(coords)
           /\ StringifyValue(Get(coords, "lat")) = Get(Loaded[idx], "lat")
           /\ StringifyValue(Get(coords, "lng")) = Get(Loaded[idx], "lng")
      [] prev.path[idx] = "failed" -> ~Truthy(coords)
      [] OTHER -> TRUE

\* The awaited geocodeAddress resolves; the record is updated or counted as
\* failed, and delay(1100) is set.
GeoLookupDone(out) ==
  /\ job = "geocode" /\ pc = "g_fetch"
  /\ LET coords == geocodeAddress(out) IN
       IF Truthy(coords)
       THEN /\ places' = [places EXCEPT ![idx] =
                 Put(Put(@, "lat", Get(coords, "lat")), "lng", Get(coords, "lng"))]
            /\ updated' = updated + 1
            /\ failed' = failed
            /\ Took("updated", out)
       ELSE /\ places' = places
            /\ updated' = updated
            /\ failed' = failed + 1
            /\ Took("failed", out)
  /\ inFlight' = inFlight - 1
  /\ sinceEnd' = 0
  /\ timer' = 0
  /\ sameNet' = (sameNet /\ SameAsBefore(geocodeAddress(out)))
  /\ pc' = "g_delay"
  /\ UNCHANGED <<file, job, idx, skipped, exitCode, logged, requests, writes,
                 sinceStart, fileAtStart, prev, cause, normVars>>

\* Time passes while the script awaits a response or the timer.
Tick(d) ==
  /\ job = "geocode"
  /\ \/ pc = "g_fetch" /\ sinceStart < DelayMs
     \/ pc = "g_delay" /\ timer < DelayMs
  /\ timer' = Min(timer + d, DelayMs)
  /\ sinceStart' = Min(sinceStart + d, DelayMs)
  /\ sinceEnd' = Min(sinceEnd + d, DelayMs)
  /\ UNCHANGED <<file, job, pc, places, idx, updated, skipped, failed,
                 exitCode, logged, requests, writes, inFlight, fileAtStart,
                 path, lastResp, prev, sameNet, cause, normVars>>

TimerNotAwaited == TRUE

\* The timer of delay(1100) has fired.
TimerFired == timer >= DelayMs

GeoDelayDoneSaving ==
  /\ job = "geocode" /\ pc = "g_delay"
  /\ TimerFired
  /\ idx' = idx + 1
  /\ pc' = "g_loop"
  /\ file' = [kind |-> "json", recs |-> Stringify(places), by |-> "geocode"]
  /\ UNCHANGED <<job, places, updated, skipped, failed, exitCode,
                 logged, requests, writes, inFlight, timer, sinceStart,
                 sinceEnd, fileAtStart, path, lastResp, prev, sameNet,
                 cause, normVars>>

GeoDelayDone ==
  /\ job = "geocode" /\ pc = "g_delay"
  /\ TimerFired
  /\ idx' = idx + 1
  /\ pc' = "g_loop"
  /\ UNCHANGED <<file, job, places, updated, skipped, failed, exitCode,
                 logged, requests, writes, inFlight, timer, sinceStart,
                 sinceEnd, fileAtStart, path, lastResp, prev, sameNet,
                 cause, normVars>>

\* What writeFileSync can do: replace the content, fail to open the file,
\* or fail after truncating it.
WriteOutcomes == {"ok", "denied", "nospace"}

WriteFile(coll, out, who) ==
  /\ writes' = writes + 1
  /\ CASE out = "ok" ->
            /\ file' = [kind |-> "json", recs |-> Stringify(coll), by |-> who]
            /\ Completed
       [] out = "denied" ->
            /\ file' = file
            /\ Rejected("write")
       [] out = "nospace" ->
            /\ file' = [kind |-> "corrupt", recs |-> <<>>, by |-> who]
            /\ Rejected("write")

\* The loop is over: the collection is written and the counters reported.
GeoWrite(out) ==
  /\ job = "geocode" /\ pc = "g_loop" /\ idx > Len(places)
  /\ WriteFile(places, out, "geocode")
  /\ UNCHANGED <<job, places, idx, updated, skipped, failed, requests,
                 inFlight, timer, sinceStart, sinceEnd, fileAtStart,
                 path, lastResp, prev, sameNet, normVars>>

(***************************************************************************)
(* scripts/sync-notion.js                                                  *)
(***************************************************************************)
\* process.env.NOTION_API_KEY || fs.readFileSync(...).trim(), at the top
\* level of the module: with no variable and no readable file it throws.
CredentialThrows(envSet, fileReadable) == ~envSet /\ ~fileReadable

SyncNoCredential ==
  /\ CanStart
  /\ \E envSet, fileReadable \in BOOLEAN :
       CredentialThrows(envSet, fileReadable)
  /\ FreshProcess
  /\ requests' = 0
  /\ job' = "sync"
  /\ prev' = NoPrev
  /\ places' = <<>>
  /\ lastResp' = NoLookup
  /\ Uncaught("credential")
  /\ UNCHANGED <<file, normVars>>

\* syncPlaces issues its one query and awaits the response.
StartSync ==
  /\ CanStart
  /\ \E envSet, fileReadable \in BOOLEAN :
       ~CredentialThrows(envSet, fileReadable)
  /\ FreshProcess
  /\ requests' = 1
  /\ job' = "sync"
  /\ prev' = NoPrev
  /\ places' = <<>>
  /\ lastResp' = NoLookup
  /\ cause' = ""
  /\ logged' = FALSE
  /\ exitCode' = -1
  /\ pc' = "s_fetch"
  /\ UNCHANGED <<file, normVars>>

\* The source records of the model.
SourcePages ==
  { Page("p1", PropNames, "full", "Via Roma 1"),
    Page("p2", PropNames \ {"Address"}, "hollow", ""),
    Page("p3", PropNames, "full", LoneSurrogate),
    PageNoProps("p4") }

SeqsUpTo(S, n) == UNION { [1..m -> S] : m \in 0..n }

\* What the query can come back with: the request fails, the body is not
\* JSON, the body is an error object, or the body holds the results.
FetchOutcomes ==
  { [k |-> "reject"], [k |-> "notjson"],
    [k |-> "json", data |-> Obj([object |-> Str("error"), status |-> Num(401)])] }
  \cup
  { [k |-> "json", data |-> Obj([results |-> Arr(ps)])] :
      ps \in SeqsUpTo(SourcePages, MaxRecords) }

MapNormalizeMerging(pages) ==
  [i \in 1..Len(pages) |->
     IF file.kind = "json" /\ i <= Len(file.recs)
          /\ "lat" \in DOMAIN file.recs[i].v /\ "lng" \in DOMAIN file.recs[i].v
          /\ Normalize(pages[i]) # Throw
     THEN Put(Put(Normalize(pages[i]), "lat", file.recs[i].v["lat"]),
              "lng", file.recs[i].v["lng"])
     ELSE Normalize(pages[i])]

\* response.results.map(page => ...)
MapNormalize(pages) == [i \in 1..Len(pages) |-> Normalize(pages[i])]

SyncFetchDone(out) ==
  /\ job = "sync" /\ pc = "s_fetch"
  /\ lastResp' = out
  /\ CASE out.k = "reject" ->                   \* req.on('error', reject)
            /\ Rejected("fetch")
            /\ places' = places
       [] out.k = "notjson" ->                  \* JSON.parse in the 'end' callback
            /\ Uncaught("notjson")
            /\ places' = places
       [] out.k = "json" ->
            LET results == Get(out.data, "results") IN
            IF results.t # "array"              \* undefined.map
            THEN Rejected("errorbody") /\ places' = places
            ELSE IF \E i \in 1..Len(results.v) :
                      MapNormalize(results.v)[i] = Throw
            THEN Rejected("normalize") /\ places' = places
            ELSE /\ places' = MapNormalize(results.v)
                 /\ pc' = "s_write"
                 /\ UNCHANGED <<logged, exitCode, cause>>
  /\ UNCHANGED <<file, job, idx, updated, skipped, failed, requests, writes,
                 inFlight, timer, sinceStart, sinceEnd, fileAtStart,
                 path, prev, sameNet, normVars>>

\* fs.mkdirSync('public/data', { recursive: true }) throws.
SyncMkdirFails ==
  /\ job = "sync" /\ pc = "s_write"
  /\ Rejected("mkdir")
  /\ UNCHANGED <<file, job, places, idx, updated, skipped, failed, requests,
                 writes, inFlight, timer, sinceStart, sinceEnd, fileAtStart,
                 path, lastResp, prev, sameNet, normVars>>

SyncWrite(out) ==
  /\ job = "sync" /\ pc = "s_write"
  /\ WriteFile(places, out, "sync")
  /\ UNCHANGED <<job, places, idx, updated, skipped, failed, requests,
                 inFlight, timer, sinceStart, sinceEnd, fileAtStart,
                 path, lastResp, prev, sameNet, normVars>>

(***************************************************************************)
(* The pipeline: the two scripts, started by hand one after the other, any *)
(* number of times in any order.                                           *)
(***************************************************************************)
InitPipeline ==
  /\ file = NoFile
  /\ job = "none"
  /\ pc = "idle"
  /\ places = <<>>
  /\ idx = 1
  /\ updated = 0
  /\ skipped = 0
  /\ failed = 0
  /\ exitCode = -1
  /\ logged = FALSE
  /\ requests = 0
  /\ writes = 0
  /\ inFlight = 0
  /\ timer = 0
  /\ sinceStart = 0
  /\ sinceEnd = 0
  /\ fileAtStart = NoFile
  /\ path = <<>>
  /\ lastResp = NoLookup
  /\ prev = NoPrev
  /\ sameNet = TRUE
  /\ cause = ""

Init ==
  /\ InitPipeline
  /\ normIn = Undef
  /\ normOut = Undef

Next ==
  \/ SyncNoCredential
  \/ StartSync
  \/ \E out \in FetchOutcomes : SyncFetchDone(out)
  \/ SyncMkdirFails
  \/ \E out \in WriteOutcomes : SyncWrite(out)
  \/ StartGeocode
  \/ GeocodeReadFails
  \/ GeoSkip
  \/ GeoNoAddress
  \/ GeoEncodeThrows
  \/ GeoLookupStart
  \/ \E out \in LookupOutcomes : GeoLookupDone(out)
  \/ \E d \in TickSteps : Tick(d)
  \/ GeoDelayDone
  \/ \E out \in WriteOutcomes : GeoWrite(out)

Spec == Init /\ [][Next]_vars

(***************************************************************************)
(* The Normalizer on its own: one source record, normalized once.          *)
(***************************************************************************)
NormInputs ==
  { Page("p1", present, fill, "Via Roma 1") :
      present \in SUBSET PropNames, fill \in Fills }
  \cup { PageNoProps("p1") }

InitNorm ==
  /\ InitPipeline
  /\ normIn \in NormInputs
  /\ normOut = Undef

NormalizeStep ==
  /\ normOut = Undef
  /\ normOut' = Normalize(normIn)
  /\ UNCHANGED <<file, job, pc, places, idx, updated, skipped, failed,
                 exitCode, logged, requests, writes, inFlight, timer,
                 sinceStart, sinceEnd, fileAtStart, path, lastResp, prev,
                 sameNet, cause, normIn>>

NextNorm == NormalizeStep

SpecNorm == InitNorm /\ [][NextNorm]_vars

(***************************************************************************)
(* Properties.                                                             *)
(***************************************************************************)
Count(seq, b) == Cardinality({i \in 1..Len(seq) : seq[i] = b})

\* The Geocoder's loop is over: the final write is next or was attempted.
LoopOver ==
  /\ job = "geocode"
  /\ fileAtStart.kind = "json"
  /\ \/ pc = "g_loop" /\ idx > Len(places)
     \/ pc = "exited" /\ writes = 1

\* A lookup was attempted for the record that took this branch.
LookupBranches == {"updated", "failed"}

\* C1: when a Geocoder run reaches its end, updated + skipped + failed is
\* the number of records loaded, and each record was counted once, by the
\* counter of the branch it took.
C1_CounterAccounting ==
  LoopOver =>
    /\ updated + skipped + failed = Len(Loaded)
    /\ Len(path) = Len(Loaded)
    /\ updated = Count(path, "updated")
    /\ skipped = Count(path, "skipped")
    /\ failed = Count(path, "failed") + Count(path, "noaddress")

C1_Witness ==
  /\ LoopOver /\ pc = "exited" /\ RanToEnd
  /\ Len(Loaded) = 2 /\ updated = 1 /\ failed = 1

\* A coordinate is present: the record holds a number under the key.
Present(place, key) == Get(place, key).t = "number"

\* C2: in a Geocoder run that follows a completed Geocoder run on the same
\* file, every record the first run updated takes the skip path, and with
\* the lookups answering as before the run leaves the file as it found it.
C2_Idempotent ==
  job = "geocode" /\ prev.valid =>
    /\ \A i \in 1..Len(path) :
         prev.path[i] = "updated" => path[i] = "skipped"
    /\ RanToEnd /\ sameNet => file = fileAtStart

\* C3: at most one lookup is in flight, and when a lookup starts after
\* another of the same run, the full delay has passed since that one
\* completed, and so since it started.
C3_RateLimit ==
  [][ /\ inFlight' <= 1
      /\ (inFlight' > inFlight /\ \E i \in 1..Len(path) : path[i] \in LookupBranches)
           => sinceEnd >= DelayMs /\ sinceStart >= DelayMs ]_vars

C3_Witness ==
  /\ job = "geocode" /\ pc = "g_fetch" /\ inFlight = 1
  /\ \E i \in 1..Len(path) : path[i] = "failed"

\* C4: a Geocoder run that loaded its collection ends only after it has
\* taken every record through the loop and called the final write.
C4_RecordFailureNeverAborts ==
  job = "geocode" /\ pc = "exited" /\ fileAtStart.kind = "json" =>
    /\ Len(path) = Len(Loaded)
    /\ \A i \in 1..Len(path) : path[i] # "threw"
    /\ writes = 1

\* The errors C5 calls fatal.
FatalCauses == {"credential", "fetch", "read", "write"}

\* C5: a run stopped by a fatal error ends with a non-zero status and a
\* logged message, having issued its request and its write at most once.
C5_FatalEndsNonZero ==
  pc = "exited" /\ cause \in FatalCauses =>
    /\ exitCode # 0
    /\ logged
    /\ requests <= 1
    /\ writes <= 1

\* The documented extraction of each kind of property.
RunText(prop, key) ==
  LET runs == Get(prop, key) IN
  IF runs.t = "array" /\ Len(runs.v) > 0
       /\ Get(runs.v[1], "plain_text").t = "string"
  THEN Get(runs.v[1], "plain_text")
  ELSE Str("")

DocText(prop) ==
  IF prop.t = "object" /\ "title" \in DOMAIN prop.v
  THEN RunText(prop, "title")
  ELSE RunText(prop, "rich_text")

DocScalar(prop, key, type, zero) ==
  IF Get(prop, key).t = type THEN Get(prop, key) ELSE zero

DocField(f, prop) ==
  CASE f \in TextFields -> DocText(prop)
    [] f \in SelectFields -> DocScalar(Get(prop, "select"), "name", "string", Str(""))
    [] f \in NumberFields -> DocScalar(prop, "number", "number", Num(0))
    [] f \in UrlFields -> DocScalar(prop, "url", "string", Str(""))
    [] f \in PhoneFields -> DocScalar(prop, "phone_number", "string", Str(""))

\* C6: for a source record that has a properties mapping, the Normalizer
\* returns a Place with every field: each string field the extracted string
\* or "", each numeric field the extracted number or 0.
C6_NormalizerTotal ==
  normOut # Undef /\ ~Nullish(Get(normIn, "properties")) =>
    /\ normOut.t = "object"
    /\ DOMAIN normOut.v = PlaceFields
    /\ normOut.v["id"] = Get(normIn, "id")
    /\ \A f \in StringFields :
         /\ normOut.v[f].t = "string"
         /\ normOut.v[f] = DocField(f, Get(Get(normIn, "properties"), PropOf(f)))
    /\ \A f \in NumberFields :
         /\ normOut.v[f].t = "number"
         /\ normOut.v[f] = DocField(f, Get(Get(normIn, "properties"), PropOf(f)))

C6_Witness ==
  /\ normOut.t = "object"
  /\ "Rating" \notin DOMAIN Get(normIn, "properties").v
  /\ Get(Get(normIn, "properties"), "Name") = TextProp("title", "hollow", "")
  /\ Get(Get(normIn, "properties"), "Category") = SelectProp("hollow", "")
  /\ normOut.v["rating"] = Num(0)
  /\ normOut.v["name"] = Str("")

\* C7: until a run calls its one write, the file is what it was when the
\* run started; the write is the run's last step, and when it succeeds the
\* file is the run's whole collection.
C7_FileWrittenOnlyAtEnd ==
  /\ writes = 0 => file = fileAtStart
  /\ writes <= 1
  /\ writes = 1 => pc = "exited"
  /\ writes = 1 /\ RanToEnd =>
       file = [kind |-> "json", recs |-> Stringify(places), by |-> job]

C7_Witness ==
  /\ job = "geocode" /\ pc = "exited" /\ cause = "encode"
  /\ updated = 1 /\ writes = 0
  /\ file = fileAtStart
  /\ places # Loaded

\* C8: a record with both coordinates is skipped; one lacking a coordinate
\* and with an empty address is counted as failed without a lookup; a
\* lookup is made exactly for a record lacking a coordinate whose address
\* is not empty.
C8_DecisionRule ==
  job = "geocode" =>
    \A i \in 1..Len(path) :
      LET has == Present(Loaded[i], "lat") /\ Present(Loaded[i], "lng")
          addressed == Truthy(Get(Loaded[i], "address"))
      IN /\ has => path[i] = "skipped"
         /\ ~has /\ ~addressed => path[i] = "noaddress"
         /\ path[i] \in LookupBranches \cup {"threw"} <=> ~has /\ addressed

\* A lookup that came back with an empty result set or a request error.
CameBackEmpty(out) ==
  \/ out.k = "reject"
  \/ out.k = "json" /\ out.data = Arr(<<>>)

SameCoords(a, b) ==
  /\ Get(a, "lat") = Get(b, "lat")
  /\ Get(a, "lng") = Get(b, "lng")

\* C9: a lookup that comes back empty or with a request error assigns no
\* coordinate to the record and counts it as failed; updated counts exactly
\* the records that were assigned the pair parsed from the first result.
C9_FailedLookupLeavesUnset ==
  job = "geocode" /\ fileAtStart.kind = "json" =>
    /\ \A i \in 1..Len(path) :
         path[i] # "updated" => SameCoords(places[i], Loaded[i])
    /\ updated = Count(path, "updated")
    /\ failed = Count(path, "failed") + Count(path, "noaddress")
    /\ pc = "g_delay" =>
         /\ CameBackEmpty(lastResp) => path[idx] = "failed"
         /\ path[idx] = "updated" =>
              /\ lastResp.k = "json"
              /\ NonEmpty(lastResp.data)
              /\ Get(places[idx], "lat") = parseFloat(Get(lastResp.data.v[1], "lat"))
              /\ Get(places[idx], "lng") = parseFloat(Get(lastResp.data.v[1], "lon"))

C9_Witness ==
  /\ job = "geocode" /\ pc = "g_delay"
  /\ lastResp = [k |-> "json", data |-> Arr(<<>>)]
  /\ path[idx] = "failed"
  /\ failed = 1 /\ updated = 0
  /\ "lat" \notin DOMAIN places[idx].v
  /\ "lng" \notin DOMAIN places[idx].v

\* C10: after a sync run that ran to its end the file is the normalized
\* source records in source order, none with lat or lng, whatever the file
\* held before; a Geocoder run on a file that sync wrote makes a lookup for
\* every record it reaches that has an address.
C10_SyncCreatesFresh ==
  /\ job = "sync" /\ RanToEnd =>
       LET src == Get(lastResp.data, "results").v IN
       /\ file.kind = "json"
       /\ Len(file.recs) = Len(src)
       /\ \A i \in 1..Len(src) :
            /\ file.recs[i] = Normalize(src[i])
            /\ "lat" \notin DOMAIN file.recs[i].v
            /\ "lng" \notin DOMAIN file.recs[i].v
  /\ job = "geocode" /\ fileAtStart.kind = "json" /\ fileAtStart.by = "sync" =>
       \A i \in 1..Len(path) :
         Truthy(Get(Loaded[i], "address")) =>
           path[i] \in LookupBranches \cup {"threw"}

C10_Witness ==
  /\ job = "sync" /\ RanToEnd
  /\ fileAtStart.kind = "json" /\ fileAtStart.by = "geocode"
  /\ Len(fileAtStart.recs) = 2 /\ Len(file.recs) = 2
  /\ Present(fileAtStart.recs[1], "lat") /\ Present(fileAtStart.recs[1], "lng")
  /\ "lat" \notin DOMAIN file.recs[1].v

\* The keys of a record other than its coordinates.
OtherKeys(place) == DOMAIN place.v \ {"lat", "lng"}

\* C11: the collection a Geocoder run writes has the records it loaded, as
\* many and in the same order; every field other than lat and lng is as it
\* was loaded; and a record loaded with both lat and lng has the same two
\* values in the written file.
C11_OnlyMissingCoordsChange ==
  job = "geocode" /\ RanToEnd /\ writes = 1 =>
    /\ file.kind = "json"
    /\ Len(file.recs) = Len(Loaded)
    /\ \A i \in 1..Len(Loaded) :
         /\ OtherKeys(file.recs[i]) = OtherKeys(Loaded[i])
         /\ \A k \in OtherKeys(Loaded[i]) : file.recs[i].v[k] = Loaded[i].v[k]
         /\ Present(Loaded[i], "lat") /\ Present(Loaded[i], "lng") =>
              SameCoords(file.recs[i], Loaded[i])

====
